---- MODULE Spec2Model ----
(***************************************************************************)
(* A model of the text editor "loop": the grapheme-aware Row, the          *)
(* Document, and the Editor's key dispatch, cursor motion, scrolling,      *)
(* prompt and quit confirmation.                                           *)
(*                                                                         *)
(* A String is a sequence of code points, each written as a one-character  *)
(* TLA+ string.  "m" stands for a combining mark (two bytes in UTF-8, a    *)
(* grapheme extender); every other code point is one byte and starts a     *)
(* grapheme cluster.  Option<usize> is an integer with None = -1, and      *)
(* Option<Position> a Position with None = NoPos.                          *)
(***************************************************************************)
EXTENDS Integers, Sequences, FiniteSets, TLC

VARIABLES
    rows,             \* Document: the rows, each a Row record
    dirty,            \* Document: the dirty flag
    file_name,        \* Document.file_name: a String, or NoName for None
    anchor,           \* Document: the search anchor, a Position
    cursor_position,  \* Editor.cursor_position
    offset,           \* Editor.offset
    status_message,   \* Editor.status_message.text
    quit_times,       \* Editor.quit_times
    should_quit,      \* Editor.should_quit
    size,             \* Terminal::size(): [width, height]
    mode,             \* where the Editor blocks in read_key: "main", "search", "save"
    result,           \* Editor::prompt: the accumulated text
    last,             \* history: the kind of the last key read and its outcome
    hook,             \* history: the last position the search hook moved the cursor to
    arg,              \* the input of the call under test (row and scroll specifications)
    ret               \* the output of the call under test

vars == <<rows, dirty, file_name, anchor, cursor_position, offset, status_message,
          quit_times, should_quit, size, mode, result, last, hook, arg, ret>>

-----------------------------------------------------------------------------
(* Bounds of the model.                                                    *)

\* the most rows of a document and the most code points of a row
MaxRows == 2
MaxLen == 2
\* the most characters typed into a prompt
MaxQuery == 1
\* the most code points of a row in the specification of the Row calls
MaxText == 3
\* the largest cursor and offset coordinate, and the most scroll calls counted,
\* in the specification of the scroll calls
MaxCoord == 3
MaxCalls == 3

-----------------------------------------------------------------------------
(* Program constants.                                                      *)

QUIT_TIMES == 2

-----------------------------------------------------------------------------
(* Strings, bytes and grapheme clusters.                                   *)

None == -1
NoPos == [x |-> -1, y |-> -1]
NoName == <<"?">>

Min(a, b) == IF a < b THEN a ELSE b
Max(a, b) == IF a > b THEN a ELSE b

\* the saturating arithmetic of usize, far from both ends of its range except at 0
saturating_sub(a, b) == IF a > b THEN a - b ELSE 0

IsExtend(c) == c = "m"
ByteLen(c) == IF IsExtend(c) THEN 2 ELSE 1

RECURSIVE ByteLenOf(_)
ByteLenOf(s) == IF s = <<>> THEN 0 ELSE ByteLen(Head(s)) + ByteLenOf(Tail(s))

\* the code-point indices (1-based) at which a grapheme cluster of s starts
GraphemeStarts(s) == {i \in 1..Len(s) : i = 1 \/ ~IsExtend(s[i])}

\* s.graphemes(true).count()
GraphemeCount(s) == Cardinality(GraphemeStarts(s))

\* the number of code points in the first n grapheme clusters of s
PrefixLen(s, n) ==
    IF n >= GraphemeCount(s) THEN Len(s)
    ELSE (CHOOSE i \in GraphemeStarts(s) :
              Cardinality({j \in GraphemeStarts(s) : j < i}) = n) - 1

\* s.graphemes(true).take(n).collect()
Take(s, n) == SubSeq(s, 1, PrefixLen(s, n))

\* s.graphemes(true).skip(n).collect()
Skip(s, n) == SubSeq(s, PrefixLen(s, n) + 1, Len(s))

\* s.grapheme_indices(true).enumerate(): the pairs (grapheme index, byte index)
GraphemeIndices(s) ==
    {<<Cardinality({j \in GraphemeStarts(s) : j < i}), ByteLenOf(SubSeq(s, 1, i - 1))>> :
        i \in GraphemeStarts(s)}

\* str::find: the byte index of the first occurrence of q in s, or None
StrFind(s, q) ==
    LET hits == {i \in 1..(Len(s) - Len(q) + 1) : SubSeq(s, i, i + Len(q) - 1) = q}
    IN IF hits = {} THEN None
       ELSE ByteLenOf(SubSeq(s, 1, (CHOOSE i \in hits : \A j \in hits : i <= j) - 1))

-----------------------------------------------------------------------------
(* Row (src/src/row.rs).                                                   *)

\* Row::update_len
update_len(row) == [row EXCEPT !.len = GraphemeCount(row.string)]

\* impl From<&str> for Row
RowFrom(s) == update_len([string |-> s, highlighting |-> <<>>, len |-> 0])

\* Row::insert
RowInsert(row, at, c) ==
    IF at >= row.len
    THEN update_len([row EXCEPT !.string = Append(row.string, c)])
    ELSE update_len([row EXCEPT !.string = Take(row.string, at) \o <<c>> \o Skip(row.string, at)])

\* Row::delete
RowDelete(row, at) ==
    IF at >= row.len
    THEN row
    ELSE update_len([row EXCEPT !.string = Take(row.string, at) \o Skip(row.string, at + 1)])

\* Row::append
RowAppend(row, new) == update_len([row EXCEPT !.string = row.string \o new.string])

\* split that skips the grapheme at the split index
RowSplit_DropsOne(row, at) ==
    <<update_len([row EXCEPT !.string = Take(row.string, at)]), RowFrom(Skip(row.string, at + 1))>>

\* Row::split: <<the row left behind, the row returned>>
RowSplit(row, at) ==
    <<update_len([row EXCEPT !.string = Take(row.string, at)]), RowFrom(Skip(row.string, at))>>

\* Row::find
RowFind(row, query, after) ==
    LET substring == Skip(row.string, after)
        matching_byte_index == StrFind(row.string, query)
        found == {gi \in GraphemeIndices(substring) : gi[2] = matching_byte_index}
    IN IF matching_byte_index = None \/ found = {} THEN None
       ELSE (CHOOSE gi \in found : TRUE)[1]

\* char::is_ascii_digit, over the code points of the model
IsDigit(c) == c = "1"

\* Row::highlight: one highlighting::Type per code point of the string
RowHighlight(row) ==
    [row EXCEPT !.highlighting =
        [i \in 1..Len(row.string) |-> IF IsDigit(row.string[i]) THEN "Number" ELSE "None"]]

-----------------------------------------------------------------------------
(* Document.  Its source file is not part of src/: the operations below    *)
(* follow section 4.2 of the specification and call the Row code above.    *)

\* Document::row
DocRow(rs, y) == rs[y + 1]
HasRow(rs, y) == y >= 0 /\ y < Len(rs)

\* the length of row y, 0 where there is no row y (editor.rs: 317-321, 365-369)
RowLenAt(rs, y) == IF HasRow(rs, y) THEN DocRow(rs, y).len ELSE 0

InsertAt(seq, i, e) == SubSeq(seq, 1, i - 1) \o <<e>> \o SubSeq(seq, i, Len(seq))
RemoveAt(seq, i) == SubSeq(seq, 1, i - 1) \o SubSeq(seq, i + 1, Len(seq))

\* Document::insert: the rows and the dirty flag after it.  The specification
\* does not say what an insert at the row past the last one does: with grow the
\* character starts a new last row, without it the rows are left as they are.
DocInsert(rs, at, c, grow) ==
    [dirty |-> TRUE,
     rows |->
        IF HasRow(rs, at.y)
        THEN IF c = "\n"
             THEN LET halves == RowSplit(DocRow(rs, at.y), at.x)
                  IN InsertAt([rs EXCEPT ![at.y + 1] = halves[1]], at.y + 2, halves[2])
             ELSE [rs EXCEPT ![at.y + 1] = RowInsert(@, at.x, c)]
        ELSE IF at.y = Len(rs) /\ grow
             THEN IF c = "\n"
                  THEN Append(rs, RowFrom(<<>>))
                  ELSE Append(rs, RowInsert(RowFrom(<<>>), 0, c))
             ELSE rs]

\* Document::delete: the rows and the dirty flag after it
DocDelete(rs, at) ==
    [dirty |-> TRUE,
     rows |->
        IF ~HasRow(rs, at.y) THEN rs
        ELSE IF at.x = DocRow(rs, at.y).len /\ HasRow(rs, at.y + 1)
             THEN RemoveAt([rs EXCEPT ![at.y + 1] = RowAppend(@, DocRow(rs, at.y + 1))], at.y + 2)
             ELSE [rs EXCEPT ![at.y + 1] = RowDelete(@, at.x)]]

\* Document::save: the dirty flag after it; ok is whether the write succeeded
DocSave(d, ok) == IF ok THEN FALSE ELSE d

\* Document::find: the remainder of the anchor row past the anchor, then the
\* rows below it from column 0, then the rows from the top down to the anchor
\* row from column 0.  The caller makes the position found the new anchor.
DocFind(rs, anc, query) ==
    LET inAnchorRow == IF HasRow(rs, anc.y) THEN RowFind(DocRow(rs, anc.y), query, anc.x + 1)
                       ELSE None
        below == {y \in 0..(Len(rs) - 1) : y > anc.y /\ RowFind(DocRow(rs, y), query, 0) # None}
        wrapped == {y \in 0..(Len(rs) - 1) : y <= anc.y /\ RowFind(DocRow(rs, y), query, 0) # None}
        first(S) == CHOOSE y \in S : \A z \in S : y <= z
    IN IF inAnchorRow # None THEN [x |-> inAnchorRow, y |-> anc.y]
       ELSE IF below # {} THEN [x |-> RowFind(DocRow(rs, first(below)), query, 0), y |-> first(below)]
       ELSE IF wrapped # {}
            THEN [x |-> RowFind(DocRow(rs, first(wrapped)), query, 0), y |-> first(wrapped)]
            ELSE NoPos

-----------------------------------------------------------------------------
(* Editor (src/src/editor.rs).                                             *)

MoveKeys == {"Up", "Down", "Left", "Right", "PageUp", "PageDown", "Home", "End"}

\* move_cursor without the clamp of x that ends it (lines 365-372)
move_cursor_NoClamp(pos, rs, terminal_height, key) ==
    LET height == Len(rs)
        width == RowLenAt(rs, pos.y)
    IN CASE key = "Up" -> [pos EXCEPT !.y = saturating_sub(pos.y, 1)]
         [] key = "Down" -> IF pos.y < height THEN [pos EXCEPT !.y = pos.y + 1] ELSE pos
         [] key = "Left" ->
               IF pos.x > 0 THEN [pos EXCEPT !.x = saturating_sub(pos.x, 1)]
               ELSE IF pos.y > 0
                    THEN IF HasRow(rs, pos.y - 1)
                         THEN [x |-> DocRow(rs, pos.y - 1).len, y |-> pos.y - 1]
                         ELSE NoPos
                    ELSE pos
         [] key = "Right" ->
               IF pos.x < width THEN [pos EXCEPT !.x = pos.x + 1]
               ELSE IF pos.y < height THEN [x |-> 0, y |-> pos.y + 1]
                    ELSE pos
         [] key = "PageUp" ->
               [pos EXCEPT !.y = IF pos.y > terminal_height THEN pos.y - terminal_height ELSE 0]
         [] key = "PageDown" ->
               [pos EXCEPT !.y = IF pos.y + terminal_height < height
                                 THEN pos.y + terminal_height ELSE height]
         [] key = "Home" -> [pos EXCEPT !.x = 0]
         [] key = "End" -> [pos EXCEPT !.x = width]
         [] OTHER -> pos

\* move_cursor whose Key::Left stops at the start of a row instead of going
\* to the end of the row above
move_cursor_LeftStays(pos, rs, terminal_height, key) ==
    LET moved == IF key = "Left" /\ pos.x = 0 THEN pos
                 ELSE move_cursor_NoClamp(pos, rs, terminal_height, key)
    IN IF moved = NoPos THEN NoPos
       ELSE IF moved.x > RowLenAt(rs, moved.y)
            THEN [moved EXCEPT !.x = RowLenAt(rs, moved.y)]
            ELSE moved

\* Editor::move_cursor; NoPos stands for the panic of the unwrap in Key::Left
move_cursor(pos, rs, terminal_height, key) ==
    LET height == Len(rs)
        width == RowLenAt(rs, pos.y)
        moved ==
            CASE key = "Up" -> [pos EXCEPT !.y = saturating_sub(pos.y, 1)]
              [] key = "Down" -> IF pos.y < height THEN [pos EXCEPT !.y = pos.y + 1] ELSE pos
              [] key = "Left" ->
                    IF pos.x > 0 THEN [pos EXCEPT !.x = saturating_sub(pos.x, 1)]
                    ELSE IF pos.y > 0
                         THEN IF HasRow(rs, pos.y - 1)
                              THEN [x |-> DocRow(rs, pos.y - 1).len, y |-> pos.y - 1]
                              ELSE NoPos
                         ELSE pos
              [] key = "Right" ->
                    IF pos.x < width THEN [pos EXCEPT !.x = pos.x + 1]
                    ELSE IF pos.y < height THEN [x |-> 0, y |-> pos.y + 1]
                         ELSE pos
              [] key = "PageUp" ->
                    [pos EXCEPT !.y = IF pos.y > terminal_height THEN pos.y - terminal_height ELSE 0]
              [] key = "PageDown" ->
                    [pos EXCEPT !.y = IF pos.y + terminal_height < height
                                      THEN pos.y + terminal_height ELSE height]
              [] key = "Home" -> [pos EXCEPT !.x = 0]
              [] key = "End" -> [pos EXCEPT !.x = width]
              [] OTHER -> pos
    IN IF moved = NoPos THEN NoPos
       ELSE IF moved.x > RowLenAt(rs, moved.y)
            THEN [moved EXCEPT !.x = RowLenAt(rs, moved.y)]
            ELSE moved

\* scroll with `>` for `>=` in the test for a cursor past the far edge
scroll_axis_OffByOne(c, off, extent) ==
    IF c < off THEN c
    ELSE IF c > off + extent THEN off + 1
         ELSE off

\* scroll that brings a cursor past the far edge into view in one call
scroll_axis_Page(c, off, extent) ==
    IF c < off THEN c
    ELSE IF c >= off + extent THEN c - extent + 1
         ELSE off

\* scroll that steps back one row or column where the code snaps to the cursor
scroll_axis_StepUp(c, off, extent) ==
    IF c < off THEN off - 1
    ELSE IF c >= off + extent THEN off + 1
         ELSE off

\* Editor::scroll, one axis: the new offset for cursor coordinate c
scroll_axis(c, off, extent) ==
    IF c < off THEN c
    ELSE IF c >= off + extent THEN off + 1
         ELSE off

\* Editor::scroll: the new offset
scroll(pos, off, sz) ==
    [x |-> scroll_axis(pos.x, off.x, sz.width), y |-> scroll_axis(pos.y, off.y, sz.height)]

-----------------------------------------------------------------------------
(* The editor as a state machine: one step per key read by                 *)
(* Terminal::read_key, in Editor::process_kepress or in Editor::prompt.    *)

\* the characters of the documents and key presses: of the editor with all its
\* keys (Typed), and of the editing and search specifications (Chars)
Typed == {"a"}
Chars == {"a", "b"}

Strings(alphabet, n) == UNION {[1..k -> alphabet] : k \in 0..n}
Documents(alphabet) ==
    UNION {[1..k -> {RowFrom(s) : s \in Strings(alphabet, MaxLen)}] : k \in 0..MaxRows}

\* the terminal size: one column and two rows of text
Sizes == {[width |-> 1, height |-> 2]}

Origin == [x |-> 0, y |-> 0]

HelpText == <<"HELP: Ctrl-F = find | Ctrl-S = save | Ctrl-Q = quit">>
OpenErrorText == <<"ERR: Could not open file: ">>
WarningText(n) == <<"WARNING! File has unsaved changes. Press Ctrl-Q ",
                    IF n = 2 THEN "2" ELSE "1", " more times to quit.">>
SaveAbortedText == <<"Save aborted">>
SavedText == <<"File saved succesfully">>
WriteErrorText == <<"Error writing file.">>
NotFoundText(query) == <<"Not found :">> \o query
PromptText(m) == IF m = "save" THEN <<"Save as: ">> ELSE <<"Search: ">>

\* the rows stay within the bounds of the model
WithinBounds(rs) == Len(rs) <= MaxRows /\ \A i \in 1..Len(rs) : Len(rs[i].string) <= MaxLen

\* Editor::default: a file opened, no file given, or a file that failed to open
Start(alphabet) ==
    /\ \/ rows \in Documents(alphabet) /\ file_name = <<"a">> /\ status_message = HelpText
       \/ rows \in {<<>>, <<RowFrom(<<>>)>>} /\ file_name = NoName
          /\ status_message \in {HelpText, OpenErrorText}
    /\ dirty = FALSE
    /\ anchor = Origin
    /\ cursor_position = Origin
    /\ offset = Origin
    /\ quit_times = QUIT_TIMES
    /\ should_quit = FALSE
    /\ size \in Sizes
    /\ mode = "main"
    /\ result = <<>>
    /\ last = "init"
    /\ hook = NoPos
    /\ arg = <<>>
    /\ ret = <<>>

Init == Start(Typed)

\* Editor::run reads the next key in process_kepress
Running == mode = "main" /\ ~should_quit

\* process_kepress, lines 199-203: the scroll and the reset of the quit counter
\* that end every command but a warned Ctrl-Q
AfterCommand(pos, off, text) ==
    /\ cursor_position' = pos
    /\ offset' = scroll(pos, off, size)
    /\ quit_times' = IF quit_times < QUIT_TIMES THEN QUIT_TIMES ELSE quit_times
    /\ status_message' = IF quit_times < QUIT_TIMES THEN <<>> ELSE text

\* the quit warning given for one press fewer
QuitWarns_OneFewer(times, is_dirty) == times > 1 /\ is_dirty

\* Key::Ctrl('q'), line 145: the press warns instead of quitting
QuitWarns(times, is_dirty) == times > 0 /\ is_dirty

\* Key::Ctrl('q')
KeyCtrlQ ==
    /\ Running
    /\ IF QuitWarns(quit_times, dirty)
       THEN /\ status_message' = WarningText(quit_times)
            /\ quit_times' = quit_times - 1
            /\ last' = "CtrlQ:warn"
            /\ UNCHANGED <<cursor_position, offset, should_quit>>
       ELSE /\ should_quit' = TRUE
            /\ last' = "CtrlQ:quit"
            /\ AfterCommand(cursor_position, offset, status_message)
    /\ hook' = NoPos
    /\ UNCHANGED <<rows, dirty, file_name, anchor, size, mode, result, arg, ret>>

\* Key::Ctrl('h')
KeyCtrlH ==
    /\ Running
    /\ AfterCommand(cursor_position, offset, HelpText)
    /\ last' = "CtrlH"
    /\ hook' = NoPos
    /\ UNCHANGED <<rows, dirty, file_name, anchor, should_quit, size, mode, result, arg, ret>>

\* Key::Char(c): the cursor moves right first, the character goes in where it lands
KeyChar(c, grow) ==
    /\ Running
    /\ LET pos == move_cursor(cursor_position, rows, size.height, "Right")
           doc == DocInsert(rows, pos, c, grow)
       IN /\ WithinBounds(doc.rows)
          /\ rows' = doc.rows
          /\ dirty' = doc.dirty
          /\ AfterCommand(pos, offset, status_message)
    /\ last' = IF c = "\n" THEN "Enter" ELSE "Char"
    /\ hook' = NoPos
    /\ UNCHANGED <<file_name, anchor, should_quit, size, mode, result, arg, ret>>

\* Key::Delete
KeyDelete ==
    /\ Running
    /\ LET doc == DocDelete(rows, cursor_position)
       IN /\ WithinBounds(doc.rows)
          /\ rows' = doc.rows
          /\ dirty' = doc.dirty
    /\ AfterCommand(cursor_position, offset, status_message)
    /\ last' = "Delete"
    /\ hook' = NoPos
    /\ UNCHANGED <<file_name, anchor, should_quit, size, mode, result, arg, ret>>

\* the process ends in a panic
Panic ==
    /\ mode' = "panic"
    /\ UNCHANGED <<rows, dirty, file_name, anchor, cursor_position, offset, status_message,
                   quit_times, should_quit, size, result, arg, ret>>

\* Backspace without the test of line 184 for a cursor at the origin
KeyBackspace_NoGuard ==
    /\ Running
    /\ last' = "Backspace"
    /\ hook' = NoPos
    /\ LET pos == move_cursor(cursor_position, rows, size.height, "Left")
           doc == DocDelete(rows, pos)
       IN IF pos = NoPos THEN Panic
          ELSE /\ WithinBounds(doc.rows)
               /\ rows' = doc.rows
               /\ dirty' = doc.dirty
               /\ AfterCommand(pos, offset, status_message)
               /\ UNCHANGED <<file_name, anchor, should_quit, size, mode, result, arg, ret>>

\* Key::Backspace
KeyBackspace ==
    /\ Running
    /\ last' = "Backspace"
    /\ hook' = NoPos
    /\ IF cursor_position.x > 0 \/ cursor_position.y > 0
       THEN LET pos == move_cursor(cursor_position, rows, size.height, "Left")
                doc == DocDelete(rows, pos)
            IN IF pos = NoPos THEN Panic
               ELSE /\ WithinBounds(doc.rows)
                    /\ rows' = doc.rows
                    /\ dirty' = doc.dirty
                    /\ AfterCommand(pos, offset, status_message)
                    /\ UNCHANGED <<file_name, anchor, should_quit, size, mode, result, arg, ret>>
       ELSE /\ AfterCommand(cursor_position, offset, status_message)
            /\ UNCHANGED <<rows, dirty, file_name, anchor, should_quit, size, mode, result,
                           arg, ret>>

\* Key::Up | Down | Left | Right | PageUp | PageDown | Home | End
KeyMove(key) ==
    /\ Running
    /\ last' = "Move"
    /\ hook' = NoPos
    /\ LET pos == move_cursor(cursor_position, rows, size.height, key)
       IN IF pos = NoPos THEN Panic
          ELSE /\ AfterCommand(pos, offset, status_message)
               /\ UNCHANGED <<rows, dirty, file_name, anchor, should_quit, size, mode, result,
                              arg, ret>>

\* any other key: the `_ => ()` arm
KeyOther ==
    /\ Running
    /\ AfterCommand(cursor_position, offset, status_message)
    /\ last' = "Other"
    /\ hook' = NoPos
    /\ UNCHANGED <<rows, dirty, file_name, anchor, should_quit, size, mode, result, arg, ret>>

\* save that takes the document for written whatever Document::save returned
SaveNamed_ClearsOnFailure(name, ok) ==
    /\ file_name' = name
    /\ dirty' = DocSave(dirty, TRUE)
    /\ AfterCommand(cursor_position, offset, IF ok THEN SavedText ELSE WriteErrorText)
    /\ last' = IF ok THEN "CtrlS:saved" ELSE "CtrlS:failed"

\* Editor::save, lines 134-138, once the document has a name: Document::save
\* and the status message that reports its outcome
SaveNamed(name, ok) ==
    /\ file_name' = name
    /\ dirty' = DocSave(dirty, ok)
    /\ AfterCommand(cursor_position, offset, IF ok THEN SavedText ELSE WriteErrorText)
    /\ last' = IF ok THEN "CtrlS:saved" ELSE "CtrlS:failed"

\* save without the return of line 129: Document::save runs with no name given
SaveAborted_StillSaves ==
    /\ AfterCommand(cursor_position, offset, SaveAbortedText)
    /\ last' = "CtrlS:aborted"
    /\ dirty' = DocSave(dirty, TRUE)
    /\ UNCHANGED file_name

\* Editor::save, lines 127-130: the prompt gave no name
SaveAborted ==
    /\ AfterCommand(cursor_position, offset, SaveAbortedText)
    /\ last' = "CtrlS:aborted"
    /\ UNCHANGED <<file_name, dirty>>

\* Editor::prompt, lines 381-386: the prompt starts and blocks in read_key
PromptStart(m) ==
    /\ mode' = m
    /\ result' = <<>>
    /\ status_message' = PromptText(m)
    /\ last' = "prompt"
    /\ hook' = NoPos
    /\ UNCHANGED <<rows, dirty, file_name, anchor, cursor_position, offset, quit_times,
                   should_quit, size, arg, ret>>

\* Key::Ctrl('s')
KeyCtrlS(ok) ==
    /\ Running
    /\ IF file_name = NoName
       THEN PromptStart("save")
       ELSE /\ SaveNamed(file_name, ok)
            /\ hook' = NoPos
            /\ UNCHANGED <<rows, anchor, should_quit, size, mode, result, arg, ret>>

\* Key::Ctrl('f')
KeyCtrlF ==
    /\ Running
    /\ PromptStart("search")

\* the closure passed to prompt by Ctrl-F (lines 157-162), after a key that
\* left the accumulated text as query; the save prompt's closure does nothing
Callback(query) ==
    LET position == DocFind(rows, anchor, query)
    IN IF mode = "search" /\ position # NoPos
       THEN /\ cursor_position' = position
            /\ offset' = scroll(position, offset, size)
            /\ anchor' = position
            /\ hook' = position
       ELSE UNCHANGED <<cursor_position, offset, anchor, hook>>

\* Editor::prompt: a key that does not end the prompt has been read; text is
\* the accumulated text after it
PromptKey(text, key) ==
    /\ result' = text
    /\ Callback(text)
    /\ status_message' = PromptText(mode) \o text
    /\ last' = key
    /\ UNCHANGED <<rows, dirty, file_name, quit_times, should_quit, size, mode, arg, ret>>

InPrompt == mode \in {"search", "save"}

\* Editor::prompt, Key::Backspace: String::truncate cuts one byte off
PromptBackspace ==
    /\ InPrompt
    /\ IF result = <<>> THEN PromptKey(result, "prompt:Backspace")
       ELSE IF ByteLen(result[Len(result)]) = 1
            THEN PromptKey(SubSeq(result, 1, Len(result) - 1), "prompt:Backspace")
            ELSE Panic /\ UNCHANGED <<last, hook>>

\* Editor::prompt, Key::Char(c) with c not a newline: a control character is dropped
PromptChar(c) ==
    /\ InPrompt
    /\ IF c = "\t" THEN PromptKey(result, "prompt:Char")
       ELSE Len(result) < MaxQuery /\ PromptKey(Append(result, c), "prompt:Char")

\* Editor::prompt, any other key
PromptOther ==
    /\ InPrompt
    /\ PromptKey(result, "prompt:Other")

\* lines 156-171 after the prompt of Ctrl-F returned text, lines 124-139 after
\* the prompt of Ctrl-S did; text = <<>> stands for Ok(None)
PromptReturn(text, ok, how) ==
    /\ mode' = "main"
    /\ result' = <<>>
    /\ IF mode = "search"
       THEN LET position == IF text = <<>> THEN NoPos ELSE DocFind(rows, anchor, text)
            IN /\ IF position # NoPos
                  THEN /\ anchor' = position
                       /\ AfterCommand(position, offset, <<>>)
                  ELSE /\ anchor' = anchor
                       /\ AfterCommand(cursor_position, offset,
                                       IF text = <<>> THEN <<>> ELSE NotFoundText(text))
               /\ last' = "CtrlF:" \o how
               /\ UNCHANGED <<file_name, dirty>>
       ELSE /\ IF text = <<>> THEN SaveAborted ELSE SaveNamed(text, ok)
            /\ anchor' = anchor
    /\ UNCHANGED <<rows, should_quit, size, hook, arg, ret>>

\* Editor::prompt, Key::Char('\n'): the loop breaks before the callback
PromptEnter(ok) ==
    /\ InPrompt
    /\ PromptReturn(result, ok, "enter")

\* Editor::prompt, Key::Esc: the text is dropped and the loop breaks
PromptEsc ==
    /\ InPrompt
    /\ PromptReturn(<<>>, FALSE, "esc")

Next ==
    \/ KeyCtrlQ
    \/ KeyCtrlF
    \/ \E ok \in BOOLEAN : KeyCtrlS(ok)
    \/ KeyCtrlH
    \/ \E c \in Typed \cup {"\n"}, grow \in BOOLEAN : KeyChar(c, grow)
    \/ KeyDelete
    \/ KeyBackspace
    \/ \E key \in MoveKeys : KeyMove(key)
    \/ KeyOther
    \/ PromptBackspace
    \/ \E c \in Typed \cup {"\t"} : PromptChar(c)
    \/ PromptOther
    \/ \E ok \in BOOLEAN : PromptEnter(ok)
    \/ PromptEsc

\* the editor with every key, over documents of one letter
Spec == Init /\ [][Next]_vars

-----------------------------------------------------------------------------
(* The editing and motion keys alone, over documents of two letters.       *)

InitNav == Start(Chars)

NextNav ==
    \/ \E c \in Chars \cup {"\n"}, grow \in BOOLEAN : KeyChar(c, grow)
    \/ KeyDelete
    \/ KeyBackspace
    \/ \E key \in MoveKeys : KeyMove(key)
    \/ KeyOther

SpecNav == InitNav /\ [][NextNav]_vars

-----------------------------------------------------------------------------
(* Ctrl-F alone, over documents of two letters.                            *)

InitFind == Start(Chars)

NextFind ==
    \/ KeyCtrlF
    \/ PromptBackspace
    \/ \E c \in Chars \cup {"\t"} : PromptChar(c)
    \/ PromptOther
    \/ \E ok \in BOOLEAN : PromptEnter(ok)
    \/ PromptEsc

SpecFind == InitFind /\ [][NextFind]_vars

-----------------------------------------------------------------------------
(* The calls of Row, one call per behaviour: arg holds the row and the     *)
(* arguments, ret the value returned.                                      *)

\* the editor's state, unused by the specifications of single calls
NoEditor ==
    /\ rows = <<>>
    /\ dirty = FALSE
    /\ file_name = NoName
    /\ anchor = Origin
    /\ status_message = <<>>
    /\ quit_times = QUIT_TIMES
    /\ should_quit = FALSE
    /\ mode = "main"
    /\ result = <<>>
    /\ last = "init"
    /\ hook = NoPos

RowChars == {"a", "b", "m"}

InitRow ==
    /\ NoEditor
    /\ cursor_position = Origin
    /\ offset = Origin
    /\ size \in Sizes
    /\ \E s \in Strings(RowChars, MaxText), q \in Strings(RowChars, MaxQuery + 1) :
          \E after \in 0..GraphemeCount(s) :
             arg = [row |-> RowFrom(s), query |-> q, after |-> after]
    /\ ret = <<>>

\* row.find(query, after)
CallFind ==
    /\ ret = <<>>
    /\ ret' = <<"find", RowFind(arg.row, arg.query, arg.after)>>
    /\ UNCHANGED <<rows, dirty, file_name, anchor, cursor_position, offset, status_message,
                   quit_times, should_quit, size, mode, result, last, hook, arg>>

NextRow == CallFind

SpecRow == InitRow /\ [][NextRow]_vars

-----------------------------------------------------------------------------
(* Editor::scroll called again and again with the cursor held where one    *)
(* jump left it: arg holds the offset before the first call, ret the       *)
(* number of calls made, counted up to MaxCalls.                           *)

Coords == 0..MaxCoord
ScrollSizes == {[width |-> w, height |-> h] : w \in 1..2, h \in 1..2}

InitScroll ==
    /\ NoEditor
    /\ cursor_position \in [x : Coords, y : Coords]
    /\ offset \in [x : Coords, y : Coords]
    /\ size \in ScrollSizes
    /\ arg = offset
    /\ ret = 0

\* self.scroll()
ScrollCall ==
    /\ offset' = scroll(cursor_position, offset, size)
    /\ ret' = Min(ret + 1, MaxCalls)
    /\ UNCHANGED <<rows, dirty, file_name, anchor, cursor_position, status_message,
                   quit_times, should_quit, size, mode, result, last, hook, arg>>

NextScroll == ScrollCall

SpecScroll == InitScroll /\ [][NextScroll]_vars

\* the caller calls scroll again as long as a call changes anything
FairScroll == SpecScroll /\ WF_vars(ScrollCall)

-----------------------------------------------------------------------------
(* One Row under a short run of its mutating calls: arg holds the row as   *)
(* constructed and the arguments every call of the run is given, ret the   *)
(* row as it is now, the row the last split returned (the empty row before *)
(* any split) and the names of the calls made.                             *)

\* the most calls of one run
MaxOps == 2

LineChars == {"a", "m", "1"}

InitLine ==
    /\ NoEditor
    /\ cursor_position = Origin
    /\ offset = Origin
    /\ size \in Sizes
    /\ \E s \in Strings(LineChars, MaxText), c \in LineChars, at \in 0..(MaxText + 1) :
          arg = [row |-> RowFrom(s), c |-> c, at |-> at]
    /\ ret = [row |-> arg.row, other |-> RowFrom(<<>>), calls |-> <<>>]

\* a call on the row: the row and the returned row after it
LineCall(name, row, other) ==
    /\ Len(ret.calls) < MaxOps
    /\ ret' = [row |-> row, other |-> other, calls |-> Append(ret.calls, name)]
    /\ UNCHANGED <<rows, dirty, file_name, anchor, cursor_position, offset, status_message,
                   quit_times, should_quit, size, mode, result, last, hook, arg>>

\* row.insert(at, c)
CallInsert == LineCall("insert", RowInsert(ret.row, arg.at, arg.c), ret.other)

\* row.delete(at)
CallDelete == LineCall("delete", RowDelete(ret.row, arg.at), ret.other)

\* row.split(at)
CallSplit == LineCall("split", RowSplit(ret.row, arg.at)[1], RowSplit(ret.row, arg.at)[2])

\* row.append(&other)
CallAppend == LineCall("append", RowAppend(ret.row, ret.other), ret.other)

\* row.highlight()
CallHighlight == LineCall("highlight", RowHighlight(ret.row), ret.other)

NextLine ==
    \/ CallInsert
    \/ CallDelete
    \/ CallSplit
    \/ CallAppend
    \/ CallHighlight

SpecLine == InitLine /\ [][NextLine]_vars

-----------------------------------------------------------------------------
(* Editor::move_cursor called a few times on a document that stays as it   *)
(* is: arg holds the cursor before the first call, ret the keys of the     *)
(* calls made.                                                             *)

InitMove ==
    /\ rows \in Documents(Typed)
    /\ cursor_position \in {p \in [x : 0..MaxLen, y : 0..MaxRows] :
                                p.y <= Len(rows) /\ p.x <= RowLenAt(rows, p.y)}
    /\ dirty = FALSE
    /\ file_name = NoName
    /\ anchor = Origin
    /\ offset = Origin
    /\ status_message = <<>>
    /\ quit_times = QUIT_TIMES
    /\ should_quit = FALSE
    /\ size \in Sizes
    /\ mode = "main"
    /\ result = <<>>
    /\ last = "init"
    /\ hook = NoPos
    /\ arg = cursor_position
    /\ ret = <<>>

\* self.move_cursor(key)
CallMove(key) ==
    /\ mode = "main"
    /\ Len(ret) < MaxOps
    /\ LET pos == move_cursor(cursor_position, rows, size.height, key)
       IN IF pos = NoPos THEN Panic /\ UNCHANGED <<last, hook>>
          ELSE /\ cursor_position' = pos
               /\ ret' = Append(ret, key)
               /\ UNCHANGED <<rows, dirty, file_name, anchor, offset, status_message,
                              quit_times, should_quit, size, mode, result, last, hook, arg>>

NextMove == \E key \in MoveKeys : CallMove(key)

SpecMove == InitMove /\ [][NextMove]_vars

-----------------------------------------------------------------------------
(* The editing and motion keys and Ctrl-S on a document opened from a      *)
(* file, over documents of one letter: arg holds the rows as they are in   *)
(* the file, those read by open or written by the last save that           *)
(* succeeded.                                                              *)

InitDirty ==
    /\ rows \in Documents(Typed)
    /\ file_name = <<"a">>
    /\ status_message = HelpText
    /\ dirty = FALSE
    /\ anchor = Origin
    /\ cursor_position = Origin
    /\ offset = Origin
    /\ quit_times = QUIT_TIMES
    /\ should_quit = FALSE
    /\ size \in Sizes
    /\ mode = "main"
    /\ result = <<>>
    /\ last = "init"
    /\ hook = NoPos
    /\ arg = rows
    /\ ret = <<>>

\* Key::Ctrl('s') on a document that has a file name
SaveCall(ok) ==
    /\ Running
    /\ file_name # NoName
    /\ SaveNamed(file_name, ok)
    /\ hook' = NoPos
    /\ arg' = IF ok THEN rows ELSE arg
    /\ UNCHANGED <<rows, anchor, should_quit, size, mode, result, ret>>

NextDirty ==
    \/ \E c \in Typed \cup {"\n"}, grow \in BOOLEAN : KeyChar(c, grow)
    \/ KeyDelete
    \/ KeyBackspace
    \/ \E key \in MoveKeys : KeyMove(key)
    \/ \E ok \in BOOLEAN : SaveCall(ok)

SpecDirty == InitDirty /\ [][NextDirty]_vars

-----------------------------------------------------------------------------
(* The prompts of Ctrl-S and Ctrl-F, with a character of two bytes among   *)
(* the characters typed.                                                   *)

PromptChars == {"a", "m"}

InitPrompt == Start(Typed)

NextPrompt ==
    \/ KeyCtrlF
    \/ \E ok \in BOOLEAN : KeyCtrlS(ok)
    \/ PromptBackspace
    \/ \E c \in PromptChars \cup {"\t"} : PromptChar(c)
    \/ PromptOther
    \/ \E ok \in BOOLEAN : PromptEnter(ok)
    \/ PromptEsc

SpecPrompt == InitPrompt /\ [][NextPrompt]_vars

-----------------------------------------------------------------------------
(* Properties.                                                             *)

\* a key command has run to its end in process_kepress
Completed == mode = "main" /\ last # "init"

CursorVisible ==
    /\ offset.y <= cursor_position.y /\ cursor_position.y < offset.y + size.height
    /\ offset.x <= cursor_position.x /\ cursor_position.x < offset.x + size.width

\* C1: quit confirmation.  A Ctrl-Q press terminates the run loop exactly when
\* the document is clean or the counter is 0; otherwise it only warns, naming
\* the counter, and decrements it; nothing else terminates the loop; and after
\* any other key the counter is back at its threshold 2.  So with a dirty
\* document and the counter at 2 the loop ends on the third press in a row.
C1_QuitConfirmation ==
    /\ [](mode = "main" /\ last # "CtrlQ:warn" => quit_times = QUIT_TIMES)
    /\ [][last' \in {"CtrlQ:warn", "CtrlQ:quit"} =>
            /\ should_quit' <=> (~dirty \/ quit_times = 0)
            /\ should_quit' <=> last' = "CtrlQ:quit"]_vars
    /\ [][last' = "CtrlQ:warn" =>
            /\ quit_times' = quit_times - 1
            /\ status_message' = WarningText(quit_times)
            /\ dirty']_vars
    /\ [][should_quit' /\ ~should_quit => last' = "CtrlQ:quit"]_vars

\* C1 witness: the loop has ended on a dirty document, on the press that found
\* the counter at 0
C1_Witness == should_quit /\ dirty /\ last = "CtrlQ:quit"

\* C2: a character key on an existing row inserts the character at the cursor's
\* column and leaves the cursor one column to the right, all other rows as
\* they were.
C2_InsertThenMoveRight ==
    [][(last' = "Char" /\ HasRow(rows, cursor_position.y)
            /\ cursor_position.x <= RowLenAt(rows, cursor_position.y)) =>
         /\ \E c \in Chars :
               rows' = [rows EXCEPT ![cursor_position.y + 1] =
                           RowFrom(Take(@.string, cursor_position.x) \o <<c>>
                                   \o Skip(@.string, cursor_position.x))]
         /\ cursor_position' = [x |-> cursor_position.x + 1, y |-> cursor_position.y]]_vars

\* C3 as claimed: after every completed key command other than a quit the
\* cursor is inside the viewport on both axes.
C3_CursorVisibleAfterCommand ==
    (Completed /\ last \notin {"CtrlQ:warn", "CtrlQ:quit"}) => CursorVisible

\* C3 as amended: the offset is never past the cursor, and a cursor that was
\* in the viewport is in it again after a step that moved it at most one row
\* down and at most one column right.
C3_OffsetFollowsCursor ==
    /\ [](offset.y <= cursor_position.y /\ offset.x <= cursor_position.x)
    /\ [][(CursorVisible /\ cursor_position'.y <= cursor_position.y + 1
              /\ cursor_position'.x <= cursor_position.x + 1) => CursorVisible']_vars

\* C3 witness: a command has moved the cursor one row down past the last
\* visible row and the viewport has followed it
C3_Witness ==
    /\ Completed /\ last = "Move"
    /\ offset.y > 0 /\ cursor_position.y = offset.y + size.height - 1

SnapOrStep(c, off, extent) ==
    CASE c < off -> c
      [] c >= off + extent -> off + 1
      [] OTHER -> off

\* C5: one scroll call snaps an offset to a cursor before it, advances it by
\* exactly one for a cursor at or past offset + extent, and leaves it alone
\* otherwise, on each axis by itself; the cursor and the document stay.
C5_ScrollSnapOrStep ==
    [][/\ offset'.y = SnapOrStep(cursor_position.y, offset.y, size.height)
       /\ offset'.x = SnapOrStep(cursor_position.x, offset.x, size.width)
       /\ cursor_position' = cursor_position
       /\ rows' = rows]_vars

\* C5 witness: one call has advanced the rows by one and snapped the columns
C5_Witness ==
    /\ ret = 1
    /\ offset.y = arg.y + 1 /\ cursor_position.y >= arg.y + size.height
    /\ offset.x = cursor_position.x /\ cursor_position.x < arg.x

\* C6: scroll calls with the cursor fixed converge: in the end the cursor is
\* in the viewport for good, a call with the cursor in the viewport changes
\* nothing, a call raises the row offset by at most one, and a cursor above
\* the viewport has the row offset on its row from the first call on.
C6_ScrollConverges ==
    /\ <>[]CursorVisible
    /\ [][CursorVisible => offset' = offset]_vars
    /\ [][offset'.y <= offset.y + 1]_vars
    /\ [](ret >= 1 /\ cursor_position.y < arg.y => offset.y = cursor_position.y)

\* C6 witness: the cursor was more than one row below the viewport, and after
\* more than one call it is in the viewport
C6_Witness ==
    /\ ret >= 2 /\ CursorVisible
    /\ cursor_position.y >= arg.y + size.height + 1

\* the grapheme indices at or after `after` where query occurs in s
Occurrences(s, query, after) ==
    {g \in after..(GraphemeCount(s) - 1) :
        LET at == PrefixLen(s, g) + 1
        IN at + Len(query) - 1 <= Len(s) /\ SubSeq(s, at, at + Len(query) - 1) = query}

FirstOccurrence(s, query, after) ==
    IF Occurrences(s, query, after) = {} THEN None
    ELSE CHOOSE g \in Occurrences(s, query, after) :
            \A h \in Occurrences(s, query, after) : g <= h

\* C7: Row::find returns the grapheme index, from the start of the row, of the
\* first occurrence of the query at or after `after`, and nothing when there
\* is none.
C7_FindFirstAtOrAfter ==
    (ret # <<>> /\ arg.query # <<>>) =>
        ret[2] = FirstOccurrence(arg.row.string, arg.query, arg.after)

\* the positions of the document where query occurs
Matches(rs, query) ==
    {[x |-> g, y |-> y] : <<g, y>> \in
        {<<g, y>> \in (0..MaxLen) \X (0..(MaxRows - 1)) :
            HasRow(rs, y) /\ g \in Occurrences(DocRow(rs, y).string, query, 0)}}

Before(p, q) == p.y < q.y \/ (p.y = q.y /\ p.x < q.x)

\* the match that follows position p in document order, wrapping at the end
NextMatch(rs, query, p) ==
    LET ms == Matches(rs, query)
        after == {m \in ms : Before(p, m)}
        least(S) == CHOOSE m \in S : \A n \in S : m = n \/ Before(m, n)
    IN IF ms = {} THEN NoPos
       ELSE IF after # {} THEN least(after) ELSE least(ms)

\* C8: a find for the same query as the find before it, whose match is the
\* anchor, finds the next match in document order, wrapping at the end, and
\* makes it the anchor and the cursor.
C8_FindNext ==
    [][(mode = "search" /\ mode' = "search" /\ result' = result /\ result # <<>>
            /\ hook = anchor /\ anchor \in Matches(rows, result)) =>
         /\ anchor' = NextMatch(rows, result, anchor)
         /\ cursor_position' = anchor']_vars

\* C9: when Enter ends the search prompt the cursor is where the hook last
\* moved it.
C9_EnterKeepsLastMatch ==
    (last = "CtrlF:enter" /\ hook # NoPos) => cursor_position = hook

\* C10: the dirty flag is false after open, true after every insert and
\* delete, false right after a save that succeeded, cleared by nothing else,
\* and left as it was by a save that failed and by an aborted save-as.
C10_DirtyLifecycle ==
    /\ [](last = "init" => ~dirty)
    /\ [](last \in {"Char", "Enter", "Delete"} => dirty)
    /\ [][(last' = "Backspace" /\ mode' = "main"
              /\ (cursor_position.x > 0 \/ cursor_position.y > 0)) => dirty']_vars
    /\ [](last = "CtrlS:saved" => ~dirty)
    /\ [][dirty /\ ~dirty' => last' = "CtrlS:saved"]_vars
    /\ [][last' \in {"CtrlS:failed", "CtrlS:aborted"} => dirty' = dirty]_vars

\* C10 witness: a save failed on a document with unsaved changes, which it keeps
C10_Witness == last = "CtrlS:failed" /\ dirty

\* C12: a row that had insert(i, c) and then delete(i) called on it, i at most
\* its length, has the string and the cached length it was constructed with.
C12_InsertDeleteRoundTrip ==
    (ret.calls = <<"insert", "delete">> /\ arg.at <= arg.row.len) =>
        /\ ret.row.string = arg.row.string
        /\ ret.row.len = arg.row.len

\* C13: split(i) leaves the row its first i graphemes and returns the rest:
\* the two strings concatenated are the original string, the row keeps
\* min(i, length) graphemes, the two lengths add up to the original length;
\* and appending the returned row gives back the original string and length.
C13_SplitLossless ==
    /\ ret.calls = <<"split">> =>
          /\ ret.row.string \o ret.other.string = arg.row.string
          /\ ret.row.len = Min(arg.at, arg.row.len)
          /\ ret.row.len = GraphemeCount(ret.row.string)
          /\ ret.other.len = GraphemeCount(ret.other.string)
          /\ ret.row.len + ret.other.len = arg.row.len
    /\ ret.calls = <<"split", "append">> =>
          /\ ret.row.string = arg.row.string
          /\ ret.row.len = arg.row.len

\* C13 witness: a row split inside, between a grapheme of two code points and
\* the grapheme after it, and put together again
C13_Witness ==
    /\ ret.calls = <<"split", "append">>
    /\ arg.at > 0 /\ arg.at < arg.row.len
    /\ ret.other.len > 0
    /\ Len(arg.row.string) > arg.row.len

\* C18: after construction and after every call the highlighting has one
\* entry per character of the string.
C18_HighlightingMatchesString ==
    /\ Len(ret.row.highlighting) = Len(ret.row.string)
    /\ Len(ret.other.highlighting) = Len(ret.other.string)

\* C14: from a cursor on an existing row, at most at its end, Right and then
\* Left bring the cursor back where it was; from the end of the row Right
\* goes to the start of the row below and Left back to the end of the row.
C14_RightLeftIdentity ==
    /\ (ret = <<"Right", "Left">> /\ HasRow(rows, arg.y)) => cursor_position = arg
    /\ (ret = <<"Right">> /\ HasRow(rows, arg.y) /\ arg.x = RowLenAt(rows, arg.y)) =>
          cursor_position = [x |-> 0, y |-> arg.y + 1]
    /\ (ret = <<"Right">> /\ HasRow(rows, arg.y) /\ arg.x < RowLenAt(rows, arg.y)) =>
          cursor_position = [x |-> arg.x + 1, y |-> arg.y]

\* C14 witness: Right and Left from the end of a row of some length, the row
\* below it being an existing row
C14_Witness ==
    /\ ret = <<"Right", "Left">>
    /\ arg.x = RowLenAt(rows, arg.y) /\ arg.x > 0 /\ HasRow(rows, arg.y + 1)
    /\ cursor_position = arg

\* the text of a document: the strings of its rows
Content(rs) == [i \in 1..Len(rs) |-> rs[i].string]

\* C11 as claimed: the dirty flag is set exactly when the text of the document
\* differs from the text in the file.
C11_DirtyIffChanged == dirty <=> Content(rows) # Content(arg)

\* C11 as amended: the dirty flag is set whenever the text of the document
\* differs from the text in the file.
C11_DirtyIfChanged == Content(rows) # Content(arg) => dirty

\* C11 witness: Delete has taken a character out of the one row of the file,
\* a row of the greatest length, and the flag is set
C11_Witness ==
    /\ last = "Delete" /\ dirty
    /\ Content(rows) # Content(arg)
    /\ Len(arg) = 1 /\ Len(rows) = 1 /\ Len(arg[1].string) = MaxLen

\* C15: in a prompt a character key appends the character to the text (a
\* control character leaves it), Backspace removes the last character of the
\* text and leaves an empty text empty, and the prompt goes on; Enter on a
\* text that is not empty returns the text (Ctrl-S saves under it as the file
\* name); Escape, and Enter on an empty text, return no value (Ctrl-S
\* aborts); and the prompt leaves the status message empty behind it (Ctrl-F
\* left by Escape sets none).
C15_PromptResult ==
    /\ [][\A c \in PromptChars \cup {"\t"} : PromptChar(c) =>
            /\ mode' = mode
            /\ result' = IF c = "\t" THEN result ELSE Append(result, c)]_vars
    /\ [][PromptBackspace =>
            /\ mode' = mode
            /\ result' = IF result = <<>> THEN <<>> ELSE SubSeq(result, 1, Len(result) - 1)]_vars
    /\ [][((\E ok \in BOOLEAN : PromptEnter(ok)) /\ mode = "save" /\ result # <<>>) =>
            /\ file_name' = result
            /\ last' \in {"CtrlS:saved", "CtrlS:failed"}]_vars
    /\ [][((PromptEsc \/ ((\E ok \in BOOLEAN : PromptEnter(ok)) /\ result = <<>>))
              /\ mode = "save") =>
            /\ file_name' = file_name
            /\ last' = "CtrlS:aborted"]_vars
    /\ [][(PromptEsc /\ mode = "search") => status_message' = <<>>]_vars

\* C16: when a command other than Ctrl-Q has run to its end, the status message
\* it set is the status message: the help text after Ctrl-H, the outcome of
\* the save after Ctrl-S.
C16_StatusOfCommandStands ==
    Completed =>
        /\ last = "CtrlH" => status_message = HelpText
        /\ last = "CtrlS:failed" => status_message = WriteErrorText
        /\ last = "CtrlS:saved" => status_message = SavedText
        /\ last = "CtrlS:aborted" => status_message = SaveAbortedText

\* the position the search hook leaves in `hook` when called with text
HookAfter(text) ==
    LET position == DocFind(rows, anchor, text)
    IN IF position # NoPos THEN position ELSE hook

\* C17: every key read by the search prompt, Enter and Escape included, is
\* followed by one call of the hook with the text as the key left it: the
\* text typed so far, and the empty text after Escape.
C17_HookAfterEveryKey ==
    [][mode = "search" =>
         hook' = HookAfter(IF mode' = "search" THEN result'
                           ELSE IF last' = "CtrlF:esc" THEN <<>> ELSE result)]_vars

\* C19: whatever keys were pressed, the cursor is on a row of the document or
\* on the line after the last row, at most at the end of the row (at column 0
\* where there is no row); so the row above a cursor with y > 0 exists and the
\* unwrap of Key::Left never panics.
C19_CursorWithinDocument ==
    /\ mode # "panic"
    /\ cursor_position.y <= Len(rows)
    /\ cursor_position.x <= RowLenAt(rows, cursor_position.y)
    /\ cursor_position.y > 0 => HasRow(rows, cursor_position.y - 1)

\* C19 witness: Backspace at the start of the second row has looked up the row
\* above, moved the cursor to its end and merged the two rows
C19_Witness ==
    /\ last = "Backspace" /\ mode = "main"
    /\ Len(rows) = 1 /\ rows[1].string = <<"a", "b">>
    /\ cursor_position = [x |-> 1, y |-> 0]

\* C20: a motion key, Backspace with the cursor at (0,0) and an unrecognised
\* key leave the rows, the dirty flag and the file name as they are, and with
\* them everything but the cursor, the offset, the quit counter and the
\* status message.
C20_NavigationFrame ==
    [][((\E key \in MoveKeys : KeyMove(key)) \/ KeyOther
           \/ (KeyBackspace /\ cursor_position = Origin)) =>
         /\ rows' = rows
         /\ dirty' = dirty
         /\ file_name' = file_name
         /\ anchor' = anchor
         /\ should_quit' = should_quit
         /\ mode' = mode
         /\ result' = result]_vars

\* C20 witness: Backspace at (0,0) of a document that has a character there
\* has left it clean
C20_Witness ==
    /\ last = "Backspace" /\ cursor_position = Origin
    /\ ~dirty /\ RowLenAt(rows, 0) > 0

====
